---- MODULE Spec2Model ----
(***************************************************************************)
(* Vapourizer: one crawl, then per-page LLM extraction streamed to a       *)
(* markdown file.                                                          *)
(*                                                                         *)
(* Text is modelled as a sequence of string tokens: concatenation of text  *)
(* is concatenation of token sequences, the empty text is <<>> (None and   *)
(* "" are both falsy in the source and both are <<>> here).                *)
(*                                                                         *)
(* Three specifications share the variables:                               *)
(*   Spec        the process of main.py (import of llm.agent, then main()) *)
(*   WriterSpec  a client calling the FileWriter methods in any order      *)
(*   CrawlSpec   the deep crawl configured by WebCrawler                   *)
(***************************************************************************)
EXTENDS Integers, Sequences, FiniteSets, TLC

VARIABLES
    pc,             \* position of the process in llm/agent.py and main()
    status,         \* "running", "completed", "failed", "aborted"
    config,         \* the LLM configuration file as found on disk
    crawl_results,  \* main(): crawl_results
    i,              \* main(): loop index i of enumerate(crawl_results, 1)
    output,         \* main(): output.output of the extraction in hand
    outcome,        \* per page: "none", "raised", or the extracted text
    output_path,    \* main(): output_path
    log,            \* lines printed by main(), in order
    dirExists,      \* the output directory exists
    fs,             \* files of the output directory: path -> content
    now,            \* the clock read by datetime.now()
    fs0,            \* the filesystem found at process start
    lastCall,       \* WriterSpec: the last FileWriter call and its result
    nCalls,         \* WriterSpec: number of FileWriter calls made
    max_depth,      \* WebCrawler.max_depth
    include_external, \* WebCrawler.include_external
    queue,          \* crawl: frontier, FIFO of [url, depth]
    visited,        \* crawl: URLs already enqueued
    results,        \* crawl: pages returned so far, [url, depth]
    expanding,      \* crawl: <<>>, or the page whose links are being taken
    links,          \* crawl: <<>>, or the link taken last
    cpc             \* crawl: "idle", "running", "returned"

runVars == <<pc, status, config, crawl_results, i, output, outcome,
             output_path, log, fs0>>
fsVars == <<dirExists, fs, now>>
writerVars == <<lastCall, nCalls>>
crawlVars == <<max_depth, include_external, queue, visited, results, expanding, links, cpc>>
vars == <<runVars, fsVars, writerVars, crawlVars>>

(***************************************************************************)
(* Bounds of the model                                                     *)
(***************************************************************************)
MaxPages == 3
MaxClock == 1
MaxCalls == 3
MaxLinks == 2
MaxDepthBound == 2

(***************************************************************************)
(* Text helpers                                                            *)
(***************************************************************************)
Digits == <<"0", "1", "2", "3", "4", "5", "6", "7", "8", "9">>

\* str(n) of a small natural number
Str(n) == IF n < 10 THEN Digits[n + 1] ELSE "many"

\* datetime.now().strftime(...): one token per clock value and format
Strftime(t, format) == <<format, Str(t)>>

RECURSIVE Concat(_)
Concat(seqs) == IF seqs = <<>> THEN <<>> ELSE Head(seqs) \o Concat(Tail(seqs))

\* the indices 1..n for which Keep(k) holds, ascending
SelectIdx(n, Keep(_)) == SelectSeq([k \in 1..n |-> k], Keep)

Range(s) == {s[k] : k \in 1..Len(s)}

(***************************************************************************)
(* util/file_writer.py                                                     *)
(***************************************************************************)
Alnum == {"walmart", "design", "toolkit", "streaming", "results",
          "Streaming", "Results"}

\* str.lower() on one character token
Lower(c) == CASE c = "Streaming" -> "streaming"
              [] c = "Results" -> "results"
              [] OTHER -> c

RECURSIVE RStrip(_)
\* str.rstrip(): drop trailing whitespace
RStrip(s) == IF s # <<>> /\ s[Len(s)] = " "
             THEN RStrip(SubSeq(s, 1, Len(s) - 1)) ELSE s

\* the sanitising of _generate_filename
Sanitize(base_name) ==
    LET kept == SelectSeq(base_name, LAMBDA c : c \in Alnum \cup {" ", "-", "_"})
        stripped == RStrip(kept)
    IN [k \in 1..Len(stripped) |->
            Lower(IF stripped[k] = " " THEN "_" ELSE stripped[k])]

\* FileWriter._generate_filename with extension ".md"
GenerateFilename(base_name, timestamp, t) ==
    IF timestamp
    THEN Sanitize(base_name) \o <<"_">> \o Strftime(t, "%Y%m%d_%H%M%S") \o <<".md">>
    ELSE Sanitize(base_name) \o <<".md">>

\* self.output_dir / file_name
FilePath(file_name) == <<"out", "/">> \o file_name

\* header_content of initialize_streaming_markdown
HeaderContent(title, t) ==
    IF title # <<>>
    THEN <<"# ">> \o title \o <<"\n\n">>
         \o <<"*Generated on: ">> \o Strftime(t, "%Y-%m-%d %H:%M:%S") \o <<"*\n\n">>
         \o <<"---\n\n">>
    ELSE <<>>

\* the section title written after the content instead of before it
AppendContentTitleLast(content, section_title) ==
    content \o <<"\n\n">>
    \o (IF section_title # <<>> THEN <<"## ">> \o section_title \o <<"\n\n">> ELSE <<>>)

\* append_content of append_to_markdown
AppendContent(content, section_title) ==
    (IF section_title # <<>> THEN <<"## ">> \o section_title \o <<"\n\n">> ELSE <<>>)
    \o content \o <<"\n\n">>

\* the file system after writing `text` to `path` opened with `mode`
OpenWrite(files, path, mode, text) ==
    LET old == IF mode = "a" /\ path \in DOMAIN files THEN files[path] ELSE <<>>
    IN [p \in DOMAIN files \cup {path} |-> IF p = path THEN old \o text ELSE files[p]]

\* the file opened for appending instead of truncated
InitializeModeAppends == "a"

\* open(file_path, 'w') of initialize_streaming_markdown
InitializeMode == "w"

\* the file truncated at every append
AppendModeTruncates == "w"

\* open(file_path, 'a') of append_to_markdown
AppendMode == "a"

\* what a write that raises may leave behind: nothing done (open failed), or
\* the file opened in `mode` and only a proper prefix of `text` written
FailedWrites(files, path, mode, text) ==
    {files} \cup {OpenWrite(files, path, mode, SubSeq(text, 1, k)) : k \in 0..(Len(text) - 1)}

NoFiles == [p \in {} |-> <<>>]

(***************************************************************************)
(* URLs: a URL is a string; UrlText gives its characters as tokens         *)
(***************************************************************************)
\* main.py: target_url
target_url == "https://digitaltoolkit.livingdesign.walmart.com/develop/react/"

UrlButton == "https://digitaltoolkit.livingdesign.walmart.com/develop/react/button"
UrlProps == "https://digitaltoolkit.livingdesign.walmart.com/develop/react/button/props"
UrlDesign == "https://digitaltoolkit.livingdesign.walmart.com/design/"
UrlPdf == "https://digitaltoolkit.livingdesign.walmart.com/develop/react/guide.pdf"
UrlReactDev == "https://react.dev/learn"
UrlPydantic == "https://ai.pydantic.dev/agents/"

WalmartHost == <<"digitaltoolkit", ".", "livingdesign", ".", "walmart", ".", "com">>

UrlText(u) ==
    CASE u = target_url -> <<"https://">> \o WalmartHost \o <<"/", "develop", "/", "react", "/">>
      [] u = UrlButton -> <<"https://">> \o WalmartHost \o <<"/", "develop", "/", "react", "/", "button">>
      [] u = UrlProps -> <<"https://">> \o WalmartHost
                           \o <<"/", "develop", "/", "react", "/", "button", "/", "props">>
      [] u = UrlDesign -> <<"https://">> \o WalmartHost \o <<"/", "design", "/">>
      [] u = UrlPdf -> <<"https://">> \o WalmartHost
                         \o <<"/", "develop", "/", "react", "/", "guide", ".", "pdf">>
      [] u = UrlReactDev -> <<"https://", "react", ".", "dev", "/", "learn">>
      [] u = UrlPydantic -> <<"https://", "ai", ".", "pydantic", ".", "dev", "/", "agents", "/">>

AllURLs == {target_url, UrlButton, UrlProps, UrlDesign, UrlPdf, UrlReactDev, UrlPydantic}

\* injective sequences over S of length lo..hi
InjSeqs(S, lo, hi) ==
    UNION {{s \in [1..n -> S] : \A a, b \in 1..n : a # b => s[a] # s[b]} : n \in lo..hi}

(***************************************************************************)
(* llm/agent.py                                                            *)
(***************************************************************************)
\* what may be found at CONFIG_PATH
Configs ==
    {[exists |-> FALSE, json |-> "none", fields |-> {}],
     [exists |-> TRUE, json |-> "invalid", fields |-> {}],
     [exists |-> TRUE, json |-> "number", fields |-> {}]}
    \cup {[exists |-> TRUE, json |-> "object", fields |-> f] :
             f \in SUBSET {"base_url", "api_key", "headers"}}

\* api_key forgotten among the required fields
RequiredFieldsWithoutKey == <<"base_url">>

\* load_llm_config: required_fields
RequiredFields == <<"base_url", "api_key">>

\* load_llm_config: "ok" when the configuration is returned, else the
\* LLMConfigError raised
LoadLlmConfig(cfg) ==
    IF ~cfg.exists THEN "Configuration file not found"
    ELSE IF cfg.json = "invalid" THEN "Invalid JSON in configuration file"
    ELSE IF cfg.json # "object" THEN "Failed to load configuration"
    ELSE LET missing_fields == SelectSeq(RequiredFields, LAMBDA field : field \notin cfg.fields)
         IN IF missing_fields # <<>> THEN "Missing required configuration fields"
            ELSE "ok"

\* create_agent, called when llm.agent is imported: "ok" or the error re-raised
CreateAgent(cfg) ==
    IF LoadLlmConfig(cfg) = "ok" THEN "ok" ELSE "Failed to create agent"

\* what agent.run may return as output.output
Outputs == {<<"extract-a">>, <<"extract-b">>}

(***************************************************************************)
(* FileWriter calls, as made by main() and by any other client             *)
(***************************************************************************)
NoCall == [op |-> "none", path |-> <<>>, ok |-> TRUE, existed |-> FALSE,
           before |-> <<>>, title |-> <<>>]

\* a call as its caller sees it: the path, the title passed, whether it returned,
\* and what the file held before
CallRecord(op, path, ok, title) ==
    [op |-> op, path |-> path, ok |-> ok, existed |-> path \in DOMAIN fs,
     before |-> IF path \in DOMAIN fs THEN fs[path] ELSE <<>>, title |-> title]

\* the clock values a second reading of datetime.now() in the same call may give
LaterReadings == {t \in {now, now + 1} : t <= MaxClock}

\* FileWriter.__init__ / _ensure_output_directory: mkdir(parents, exist_ok)
EnsureOutputDirectoryOk ==
    /\ dirExists' = TRUE
    /\ lastCall' = CallRecord("mkdir", <<"out">>, TRUE, <<>>)
    /\ nCalls' = nCalls + 1
    /\ UNCHANGED <<fs, now>>

EnsureOutputDirectoryRaise ==
    /\ ~dirExists
    /\ lastCall' = CallRecord("mkdir", <<"out">>, FALSE, <<>>)
    /\ nCalls' = nCalls + 1
    /\ UNCHANGED <<dirExists, fs, now>>

\* FileWriter.initialize_streaming_markdown returning file_path
InitializeStreamingMarkdownOk(base_filename, title, timestamp) ==
    \E t2 \in LaterReadings :
        LET file_path == FilePath(GenerateFilename(base_filename, timestamp, now))
            header_content == HeaderContent(title, t2)
        IN /\ dirExists
           /\ fs' = OpenWrite(fs, file_path, InitializeMode, header_content)
           /\ now' = t2
           /\ lastCall' = CallRecord("initialize", file_path, TRUE, title)
           /\ nCalls' = nCalls + 1
           /\ UNCHANGED dirExists

\* FileWriter.initialize_streaming_markdown raising
InitializeStreamingMarkdownRaise(base_filename, title, timestamp) ==
    \E t2 \in LaterReadings :
        LET file_path == FilePath(GenerateFilename(base_filename, timestamp, now))
            header_content == HeaderContent(title, t2)
        IN /\ fs' \in (IF dirExists
                        THEN FailedWrites(fs, file_path, InitializeMode, header_content)
                        ELSE {fs})
           /\ now' = t2
           /\ lastCall' = CallRecord("initialize", file_path, FALSE, title)
           /\ nCalls' = nCalls + 1
           /\ UNCHANGED dirExists

\* FileWriter.append_to_markdown returning
AppendToMarkdownOk(file_path, content, section_title) ==
    LET append_content == AppendContent(content, section_title)
    IN /\ dirExists
       /\ fs' = OpenWrite(fs, file_path, AppendMode, append_content)
       /\ lastCall' = CallRecord("append", file_path, TRUE, section_title)
       /\ nCalls' = nCalls + 1
       /\ UNCHANGED <<dirExists, now>>

\* FileWriter.append_to_markdown raising
AppendToMarkdownRaise(file_path, content, section_title) ==
    LET append_content == AppendContent(content, section_title)
    IN /\ fs' \in (IF dirExists
                    THEN FailedWrites(fs, file_path, AppendMode, append_content)
                    ELSE {fs})
       /\ lastCall' = CallRecord("append", file_path, FALSE, section_title)
       /\ nCalls' = nCalls + 1
       /\ UNCHANGED <<dirExists, now>>

\* time passes
Tick ==
    /\ now < MaxClock
    /\ now' = now + 1
    /\ UNCHANGED <<runVars, dirExists, fs, writerVars, crawlVars>>

(***************************************************************************)
(* main.py                                                                 *)
(***************************************************************************)
\* WebCrawler(max_depth=2, include_external=True, verbose=True)
MainMaxDepth == 2
MainIncludeExternal == TRUE

\* defaults of WebCrawler.__init__
DefaultMaxDepth == 1
DefaultIncludeExternal == TRUE

\* base_filename passed to initialize_streaming_markdown
MainBaseFilename == <<"walmart", "_", "design", "_", "toolkit">>

\* title=f"Web Crawl Results - {len(crawl_results)} pages"
MainTitle(rs) == <<"Web Crawl Results - ", Str(Len(rs)), " pages">>

\* pages numbered from 0, as enumerate does without its start argument
SectionTitleFromZero(idx, url) == <<"Page ", Str(idx - 1), ": ", url>>

\* section_title = f"Page {i}: {result.url}"
SectionTitle(idx, url) == <<"Page ", Str(idx), ": ", url>>

\* the count printed without the root page
CrawledLineWithoutRoot(rs) == <<"Successfully crawled ", Str(Len(rs) - 1), " pages">>

\* print(f"Successfully crawled {len(crawl_results)} pages")
CrawledLine(rs) == <<"Successfully crawled ", Str(Len(rs)), " pages">>

\* the two prints that end a completed run
CompletedLines(path) == << <<"Crawl completed successfully!">>,
                           <<"All results saved to: ">> \o path >>

\* the index advanced once too often after a failed extraction
ExtractExceptSkipsNext == [pc |-> "loop", status |-> "running", step |-> 2]

\* no per-page try: the error reaches the outer except
ExtractExceptPropagates == [pc |-> "done", status |-> "failed", step |-> 0]

\* except of the per-page try: print the error, continue with the next page
ExtractExcept == [pc |-> "loop", status |-> "running", step |-> 1]

\* the error is printed inside the loop and the loop goes on
MainExceptContinues == [pc |-> "loop", status |-> "running"]

\* except of the outer try: print the error, main() returns
MainExcept == [pc |-> "done", status |-> "failed"]

\* the exception of the engine swallowed, an empty list returned
CrawlExceptSwallows == "return_empty"

\* WebCrawler.crawl: an exception of the engine is wrapped and re-raised
CrawlExcept == "raise"

\* the result sequences the crawl may return: the root first, no URL twice
CrawlResultSeqs ==
    {<<target_url>> \o s : s \in InjSeqs({UrlButton, UrlProps, UrlPydantic}, 0, MaxPages - 1)}

NoOutcome == [state |-> "none", text |-> <<>>]

\* import of llm.agent at the top of main.py: the agent is created
LoadAgentOk ==
    /\ pc = "import"
    /\ CreateAgent(config) = "ok"
    /\ pc' = "main"
    /\ UNCHANGED <<status, config, crawl_results, i, output, outcome, output_path, log, fs0>>
    /\ UNCHANGED <<fsVars, writerVars, crawlVars>>

\* import of llm.agent: LLMConfigError is logged and re-raised, the process ends
LoadAgentRaise ==
    /\ pc = "import"
    /\ CreateAgent(config) # "ok"
    /\ pc' = "done"
    /\ status' = "aborted"
    /\ UNCHANGED <<config, crawl_results, i, output, outcome, output_path, log, fs0>>
    /\ UNCHANGED <<fsVars, writerVars, crawlVars>>

\* main(): the crawler is built and crawler.crawl(target_url) is awaited
StartCrawl ==
    /\ pc = "main"
    /\ max_depth' = MainMaxDepth
    /\ include_external' = MainIncludeExternal
    /\ cpc' = "running"
    /\ log' = Append(log, <<"Starting crawl of: ", target_url>>)
    /\ pc' = "crawling"
    /\ UNCHANGED <<status, config, crawl_results, i, output, outcome, output_path, fs0>>
    /\ UNCHANGED <<fsVars, writerVars, queue, visited, results, expanding, links>>

\* crawler.crawl returns the materialized result list
CrawlReturn ==
    /\ pc = "crawling"
    /\ \E rs \in CrawlResultSeqs :
          /\ crawl_results' = rs
          /\ outcome' = [k \in 1..Len(rs) |-> NoOutcome]
          /\ log' = Append(log, CrawledLine(rs))
    /\ cpc' = "returned"
    /\ pc' = "writer"
    /\ UNCHANGED <<status, config, i, output, output_path, fs0>>
    /\ UNCHANGED <<fsVars, writerVars, max_depth, include_external, queue, visited, results, expanding, links>>

\* the crawl engine raises inside WebCrawler.crawl
CrawlRaise ==
    /\ pc = "crawling"
    /\ cpc' = "raised"
    /\ IF CrawlExcept = "raise"
       THEN /\ log' = Append(log, <<"Error during crawl: ", "Failed to crawl ", target_url>>)
            /\ pc' = MainExcept.pc
            /\ status' = MainExcept.status
            /\ UNCHANGED <<crawl_results, outcome>>
       ELSE /\ crawl_results' = <<>>
            /\ outcome' = <<>>
            /\ log' = Append(log, CrawledLine(<<>>))
            /\ pc' = "writer"
            /\ UNCHANGED status
    /\ UNCHANGED <<config, i, output, output_path, fs0>>
    /\ UNCHANGED <<fsVars, writerVars, max_depth, include_external, queue, visited, results, expanding, links>>

\* file_writer = FileWriter(output_dir="out")
CreateWriterOk ==
    /\ pc = "writer"
    /\ EnsureOutputDirectoryOk
    /\ pc' = "initialize"
    /\ UNCHANGED <<status, config, crawl_results, i, output, outcome, output_path, log, fs0>>
    /\ UNCHANGED crawlVars

\* FileWriter(output_dir="out") raises: the directory cannot be created
CreateWriterRaise ==
    /\ pc = "writer"
    /\ EnsureOutputDirectoryRaise
    /\ log' = Append(log, <<"Error during crawl: ", "Failed to create output directory ">>)
    /\ pc' = MainExcept.pc
    /\ status' = MainExcept.status
    /\ UNCHANGED <<config, crawl_results, i, output, outcome, output_path, fs0>>
    /\ UNCHANGED crawlVars

\* output_path = file_writer.initialize_streaming_markdown(...)
InitializeOk ==
    /\ pc = "initialize"
    /\ InitializeStreamingMarkdownOk(MainBaseFilename, MainTitle(crawl_results), TRUE)
    /\ output_path' = lastCall'.path
    /\ log' = Append(log, <<"Streaming results to: ">> \o output_path')
    /\ i' = 1
    /\ pc' = "loop"
    /\ UNCHANGED <<status, config, crawl_results, output, outcome, fs0>>
    /\ UNCHANGED crawlVars

\* initialize_streaming_markdown raises
InitializeRaise ==
    /\ pc = "initialize"
    /\ InitializeStreamingMarkdownRaise(MainBaseFilename, MainTitle(crawl_results), TRUE)
    /\ log' = Append(log, <<"Error during crawl: ",
                             "Failed to initialize streaming markdown file: ">>)
    /\ pc' = MainExcept.pc
    /\ status' = MainExcept.status
    /\ UNCHANGED <<config, crawl_results, i, output, outcome, output_path, fs0>>
    /\ UNCHANGED crawlVars

\* the loop takes page i and awaits agent.run on its markdown
ExtractCall ==
    /\ pc = "loop"
    /\ i <= Len(crawl_results)
    /\ log' = Append(log, <<"Extracting information from ", crawl_results[i]>>)
    /\ pc' = "extracting"
    /\ UNCHANGED <<status, config, crawl_results, i, output, outcome, output_path, fs0>>
    /\ UNCHANGED <<fsVars, writerVars, crawlVars>>

\* agent.run returns
ExtractReturn ==
    /\ pc = "extracting"
    /\ \E out \in Outputs :
          /\ output' = out
          /\ outcome' = [outcome EXCEPT ![i] = [state |-> "ok", text |-> out]]
    /\ log' = Append(log, <<"Extracted information from ", crawl_results[i]>>)
    /\ pc' = "append"
    /\ UNCHANGED <<status, config, crawl_results, i, output_path, fs0>>
    /\ UNCHANGED <<fsVars, writerVars, crawlVars>>

\* agent.run raises
ExtractRaise ==
    /\ pc = "extracting"
    /\ outcome' = [outcome EXCEPT ![i] = [state |-> "raised", text |-> <<>>]]
    /\ log' = Append(log, <<"Error extracting information from ", crawl_results[i]>>)
    /\ pc' = ExtractExcept.pc
    /\ status' = ExtractExcept.status
    /\ i' = i + ExtractExcept.step
    /\ UNCHANGED <<config, crawl_results, output, output_path, fs0>>
    /\ UNCHANGED <<fsVars, writerVars, crawlVars>>

\* file_writer.append_to_markdown(output_path, output.output, section_title)
AppendOk ==
    /\ pc = "append"
    /\ AppendToMarkdownOk(output_path, output, SectionTitle(i, crawl_results[i]))
    /\ log' = Append(log, <<"Appended results for ", crawl_results[i], " to markdown file">>)
    /\ i' = i + 1
    /\ pc' = "loop"
    /\ UNCHANGED <<status, config, crawl_results, output, outcome, output_path, fs0>>
    /\ UNCHANGED crawlVars

\* append_to_markdown raises
AppendRaise ==
    /\ pc = "append"
    /\ AppendToMarkdownRaise(output_path, output, SectionTitle(i, crawl_results[i]))
    /\ log' = Append(log, <<"Error during crawl: ", "Failed to append to markdown file: ">>)
    /\ pc' = MainExcept.pc
    /\ status' = MainExcept.status
    /\ UNCHANGED <<config, crawl_results, i, output, outcome, output_path, fs0>>
    /\ UNCHANGED crawlVars

\* the loop is exhausted: the closing prints, main() returns
Finish ==
    /\ pc = "loop"
    /\ i > Len(crawl_results)
    /\ log' = log \o CompletedLines(output_path)
    /\ pc' = "done"
    /\ status' = "completed"
    /\ UNCHANGED <<config, crawl_results, i, output, outcome, output_path, fs0>>
    /\ UNCHANGED <<fsVars, writerVars, crawlVars>>

\* a file a previous run may have left at the path this run will use at time 0
OldFiles == [p \in {FilePath(GenerateFilename(MainBaseFilename, TRUE, 0))} |-> <<"old run">>]

Init ==
    /\ pc = "import"
    /\ status = "running"
    /\ config \in Configs
    /\ crawl_results = <<>>
    /\ i = 1
    /\ output = <<>>
    /\ outcome = <<>>
    /\ output_path = <<>>
    /\ log = <<>>
    /\ dirExists \in BOOLEAN
    /\ fs \in (IF dirExists THEN {NoFiles, OldFiles} ELSE {NoFiles})
    /\ fs0 = [dir |-> dirExists, files |-> fs]
    /\ now = 0
    /\ lastCall = NoCall
    /\ nCalls = 0
    /\ max_depth = DefaultMaxDepth
    /\ include_external = DefaultIncludeExternal
    /\ queue = <<>>
    /\ visited = {}
    /\ results = <<>>
    /\ expanding = <<>>
    /\ links = <<>>
    /\ cpc = "idle"

Next ==
    \/ LoadAgentOk
    \/ LoadAgentRaise
    \/ StartCrawl
    \/ CrawlReturn
    \/ CrawlRaise
    \/ CreateWriterOk
    \/ CreateWriterRaise
    \/ InitializeOk
    \/ InitializeRaise
    \/ ExtractCall
    \/ ExtractReturn
    \/ ExtractRaise
    \/ AppendOk
    \/ AppendRaise
    \/ Finish
    \/ Tick

Spec == Init /\ [][Next]_vars

(***************************************************************************)
(* Reading the run: what the claims speak about                            *)
(***************************************************************************)
IsPrefix(a, b) == Len(a) <= Len(b) /\ SubSeq(b, 1, Len(a)) = a

\* positions, in crawl order, of the pages among the first n whose extraction succeeded
Succeeded(n) == SelectIdx(n, LAMBDA k : k <= Len(outcome) /\ outcome[k].state = "ok")

Raised == {k \in 1..Len(outcome) : outcome[k].state = "raised"}

\* the content of the output file of this run
OutputFile == IF output_path \in DOMAIN fs THEN fs[output_path] ELSE <<>>

\* a section block: title line, blank line, content, blank line
Block(title, content) == <<"## ">> \o title \o <<"\n\n">> \o content \o <<"\n\n">>

\* the blocks of the pages at positions idx, titled by Title
Blocks(idx, Title(_)) ==
    Concat([j \in 1..Len(idx) |-> Block(Title(idx[j]), outcome[idx[j]].text)])

\* the header lines: title, generation time, rule
IsHeader(text) ==
    \E t \in 0..MaxClock :
        text = <<"# ", "Web Crawl Results - ", Str(Len(crawl_results)), " pages", "\n\n",
                 "*Generated on: ", "%Y-%m-%d %H:%M:%S", Str(t), "*\n\n", "---\n\n">>

HeaderLen ==
    Len(<<"# ", "Web Crawl Results - ", "n", " pages", "\n\n",
          "*Generated on: ", "%Y-%m-%d %H:%M:%S", "t", "*\n\n", "---\n\n">>)

\* the section titles found in a markdown text: what stands between "## " and
\* the end of that line
TitlesIn(text) ==
    LET starts == SelectIdx(Len(text), LAMBDA k : text[k] = "## ")
        LineEnd(a) == CHOOSE b \in a..(Len(text) + 1) :
                          /\ b = Len(text) + 1 \/ text[b] = "\n\n"
                          /\ \A c \in a..(b - 1) : text[c] # "\n\n"
    IN [j \in 1..Len(starts) |-> SubSeq(text, starts[j] + 1, LineEnd(starts[j]) - 1)]

LinesStarting(word) == SelectIdx(Len(log), LAMBDA k : Head(log[k]) = word)

NoExtractionCalled ==
    /\ LinesStarting("Extracting information from ") = <<>>
    /\ \A k \in 1..Len(outcome) : outcome[k] = NoOutcome

NoFilesystemEffect ==
    /\ dirExists = fs0.dir
    /\ fs = fs0.files
    /\ nCalls = 0

(***************************************************************************)
(* C1: an extraction that raises for page k appends nothing for page k,    *)
(* leaves the output file as it was, moves on to page k+1 with the run     *)
(* still running; a run in which no write fails ends completed, with a     *)
(* section for every page whose extraction succeeded and none for page k.  *)
(***************************************************************************)
SkipState ==
    \A k \in Raised :
        /\ i > k
        /\ crawl_results[k] \notin Range(OutputFile)
        /\ status = "failed" => ~lastCall.ok
        /\ pc = "done" /\ lastCall.ok => status = "completed"
        /\ status = "completed" =>
              \A j \in Range(Succeeded(Len(crawl_results))) :
                  \E a \in 1..Len(OutputFile) :
                      /\ OutputFile[a] = crawl_results[j]
                      /\ a + 2 <= Len(OutputFile)
                      /\ <<OutputFile[a + 2]>> = outcome[j].text

SkipStep ==
    (pc = "extracting" /\ outcome'[i].state = "raised")
        => /\ fs' = fs
           /\ i' = i + 1
           /\ pc' = "loop"
           /\ status' = "running"

SkipOnExtractionFailure == []SkipState /\ [][SkipStep]_vars

SkipWitness ==
    /\ status = "completed"
    /\ Len(crawl_results) = 3
    /\ outcome[1].state = "ok"
    /\ outcome[2].state = "raised"
    /\ outcome[3].state = "ok"

(***************************************************************************)
(* C2: a completed run (no write failed) leaves the output file equal to   *)
(* the header followed by exactly one block per page whose extraction      *)
(* succeeded, in crawl order, each block being the section title of that   *)
(* page followed by the content extracted from it.                         *)
(***************************************************************************)
AppendOrder ==
    status = "completed" =>
        LET idx == Succeeded(Len(crawl_results))
            file == OutputFile
        IN /\ output_path \in DOMAIN fs
           /\ Len(file) >= HeaderLen
           /\ IsHeader(SubSeq(file, 1, HeaderLen))
           /\ SubSeq(file, HeaderLen + 1, Len(file))
                = Blocks(idx, LAMBDA k : <<"Page ", Str(k), ": ", crawl_results[k]>>)
           /\ Len(TitlesIn(file)) = Len(idx)

AppendOrderWitness ==
    /\ status = "completed"
    /\ Len(crawl_results) = 3
    /\ Len(Succeeded(3)) = 2
    /\ outcome[1].state = "raised"
    /\ outcome[2].text # outcome[3].text

(***************************************************************************)
(* C3: when the crawl call raises, the run is failed at once: no           *)
(* extraction call, the output directory is not created and no file is     *)
(* initialized or written.                                                 *)
(***************************************************************************)
TotalCrawlFailure ==
    cpc = "raised" =>
        /\ status = "failed"
        /\ pc = "done"
        /\ NoExtractionCalled
        /\ NoFilesystemEffect

TotalCrawlFailureWitness ==
    /\ cpc = "raised"
    /\ ~fs0.dir
    /\ status = "failed"

(***************************************************************************)
(* C4: with the configuration file absent, not valid JSON, or without      *)
(* base_url or api_key, the process aborts before any crawl call, any      *)
(* extraction call, and any creation of the directory or of a file.        *)
(***************************************************************************)
BadConfig ==
    \/ ~config.exists
    \/ config.json = "invalid"
    \/ "base_url" \notin config.fields
    \/ "api_key" \notin config.fields

ConfigFailureIsFatal ==
    BadConfig =>
        /\ pc \in {"import", "done"}
        /\ pc = "done" => status = "aborted"
        /\ cpc = "idle"
        /\ log = <<>>
        /\ NoExtractionCalled
        /\ NoFilesystemEffect

ConfigFailureWitness ==
    /\ config.exists
    /\ config.json = "object"
    /\ config.fields = {"base_url"}
    /\ status = "aborted"

(***************************************************************************)
(* C5 as stated: a completed run has reported the number of pages crawled  *)
(* and, in another line, the number of sections written, the latter equal  *)
(* to the number of pages whose extraction succeeded.                      *)
(***************************************************************************)
\* lines that print a path carry the digits of its timestamp, not a count
IsPathLine(line) == "%Y%m%d_%H%M%S" \in Range(line)

ReportsCount(line, n) == ~IsPathLine(line) /\ Str(n) \in Range(line)

SectionTitleIsUrl ==
    status = "completed" =>
        LET idx == Succeeded(Len(crawl_results))
        IN TitlesIn(OutputFile) = [j \in 1..Len(idx) |-> <<crawl_results[idx[j]]>>]

(***************************************************************************)
(* C6 amended: the title of the section of a page is "Page i: " followed   *)
(* by the page's URL, i being the 1-based position of the page in the     *)
(* crawl results (skipped pages counted); the titles in the file are those *)
(* of the pages whose extraction succeeded, in crawl order.                *)
(***************************************************************************)
SectionTitleIsPageAndUrl ==
    status = "completed" =>
        LET idx == Succeeded(Len(crawl_results))
        IN TitlesIn(OutputFile)
             = [j \in 1..Len(idx) |-> <<"Page ", Str(idx[j]), ": ", crawl_results[idx[j]]>>]

SectionTitleWitness ==
    /\ status = "completed"
    /\ Len(crawl_results) >= 2
    /\ outcome[1].state = "raised"
    /\ outcome[2].state = "ok"
    /\ TitlesIn(OutputFile)[1][2] = "2"

(***************************************************************************)
(* C7: when creating the directory, initializing the file or appending a   *)
(* section fails, the run is failed and over: the write is not retried, no *)
(* extraction call follows (none at all for a directory or initialize      *)
(* failure), and what had been appended for earlier pages is still there.  *)
(***************************************************************************)
WriteFailureState ==
    ~lastCall.ok =>
        /\ status = "failed"
        /\ pc = "done"
        /\ Head(log[Len(log)]) = "Error during crawl: "
        /\ \A k \in 1..Len(outcome) : k > i => outcome[k] = NoOutcome
        /\ lastCall.op \in {"mkdir", "initialize"} => NoExtractionCalled
        /\ lastCall.op = "append" =>
              /\ IsPrefix(lastCall.before, OutputFile)
              /\ IsHeader(SubSeq(lastCall.before, 1, HeaderLen))
              /\ SubSeq(lastCall.before, HeaderLen + 1, Len(lastCall.before))
                   = Blocks(Succeeded(i - 1),
                            LAMBDA k : <<"Page ", Str(k), ": ", crawl_results[k]>>)

WriteFailureStep == ~lastCall.ok => UNCHANGED <<nCalls, fs, outcome, log, pc, status>>

WriteFailureIsFatal == []WriteFailureState /\ [][WriteFailureStep]_vars

WriteFailureWitness ==
    /\ ~lastCall.ok
    /\ lastCall.op = "append"
    /\ i = 3
    /\ Len(Succeeded(2)) = 2
    /\ Len(OutputFile) > Len(lastCall.before)

(***************************************************************************)
(* A client of FileWriter: any calls, in any order                         *)
(***************************************************************************)
\* base names a client may pass; both sanitize to streaming_results
BaseNames == {<<"Streaming", " ", "Results">>,
              <<"streaming", "/", "_", "results", " ">>}

\* titles a client may pass; <<>> is None or ""
ClientTitles == {<<>>, <<"Title">>}

WriterInitializeOk ==
    /\ nCalls < MaxCalls
    /\ \E base_filename \in BaseNames, title \in ClientTitles, timestamp \in BOOLEAN :
          InitializeStreamingMarkdownOk(base_filename, title, timestamp)
    /\ UNCHANGED <<runVars, crawlVars>>

WriterInitializeRaise ==
    /\ nCalls < MaxCalls
    /\ \E base_filename \in BaseNames, title \in ClientTitles, timestamp \in BOOLEAN :
          InitializeStreamingMarkdownRaise(base_filename, title, timestamp)
    /\ UNCHANGED <<runVars, crawlVars>>

WriterAppendOk ==
    /\ nCalls < MaxCalls
    /\ \E file_path \in DOMAIN fs, content \in Outputs, section_title \in ClientTitles :
          AppendToMarkdownOk(file_path, content, section_title)
    /\ UNCHANGED <<runVars, crawlVars>>

WriterAppendRaise ==
    /\ nCalls < MaxCalls
    /\ \E file_path \in DOMAIN fs, content \in Outputs, section_title \in ClientTitles :
          AppendToMarkdownRaise(file_path, content, section_title)
    /\ UNCHANGED <<runVars, crawlVars>>

\* the state after FileWriter(output_dir="out") returned
WriterInit ==
    /\ pc = "client"
    /\ status = "running"
    /\ config \in {c \in Configs : CreateAgent(c) = "ok" /\ "headers" \notin c.fields}
    /\ crawl_results = <<>>
    /\ i = 1
    /\ output = <<>>
    /\ outcome = <<>>
    /\ output_path = <<>>
    /\ log = <<>>
    /\ dirExists = TRUE
    /\ fs = NoFiles
    /\ fs0 = [dir |-> dirExists, files |-> fs]
    /\ now = 0
    /\ lastCall = NoCall
    /\ nCalls = 0
    /\ max_depth = DefaultMaxDepth
    /\ include_external = DefaultIncludeExternal
    /\ queue = <<>>
    /\ visited = {}
    /\ results = <<>>
    /\ expanding = <<>>
    /\ links = <<>>
    /\ cpc = "idle"

WriterNext ==
    \/ WriterInitializeOk
    \/ WriterInitializeRaise
    \/ WriterAppendOk
    \/ WriterAppendRaise
    \/ Tick

WriterSpec == WriterInit /\ [][WriterNext]_vars

(***************************************************************************)
(* C10: after initialize_streaming_markdown has returned for a path that   *)
(* already held a file, whatever had been written to it, the file holds    *)
(* exactly the header of this call (nothing when the title is empty) and   *)
(* nothing of what it held before.                                         *)
(***************************************************************************)
InitializeTruncates ==
    (lastCall.op = "initialize" /\ lastCall.ok /\ lastCall.existed) =>
        /\ lastCall.path \in DOMAIN fs
        /\ \E t \in 0..MaxClock :
              fs[lastCall.path] =
                  IF lastCall.title = <<>> THEN <<>>
                  ELSE <<"# ">> \o lastCall.title
                       \o <<"\n\n", "*Generated on: ", "%Y-%m-%d %H:%M:%S", Str(t),
                            "*\n\n", "---\n\n">>

InitializeTruncatesWitness ==
    /\ lastCall.op = "initialize"
    /\ lastCall.ok
    /\ lastCall.existed
    /\ "## " \in Range(lastCall.before)
    /\ "# " \in Range(lastCall.before)
    /\ lastCall.title # <<>>
    /\ fs[lastCall.path] # lastCall.before

(***************************************************************************)
(* util/constants.py and crawlers/web_crawler.py                           *)
(***************************************************************************)
\* a glob is a sequence of "*" and literal pieces
URL_PATTERNS == << <<"*", "react", "*">>, <<"*", "langgraph", "*">>,
                  <<"*", "pydantic", "*">>, <<"*", "fastmcp", "*">> >>

\* a domain is the sequence of its labels
ALLOWED_DOMAINS == << <<"ai", "pydantic", "dev">>,
                     <<"langchain-ai", "github", "io">>,
                     <<"digitaltoolkit", "livingdesign", "walmart", "com">>,
                     <<"gofastmcp", "com">> >>

ALLOWED_CONTENT_TYPES == <<"text/html">>

\* the domain filter left out when external links are included
CreateCrawlerConfigNoDomain(md, inc) ==
    [max_depth |-> md,
     include_external |-> inc,
     filter_chain |->
        <<[kind |-> "URLPatternFilter", allowed |-> URL_PATTERNS]>>
        \o (IF inc THEN <<>> ELSE <<[kind |-> "DomainFilter", allowed |-> ALLOWED_DOMAINS]>>)
        \o <<[kind |-> "ContentTypeFilter", allowed |-> ALLOWED_CONTENT_TYPES]>>]

\* the depth passed on one too large
CreateCrawlerConfigDeeper(md, inc) ==
    [max_depth |-> md + 1,
     include_external |-> inc,
     filter_chain |->
        <<[kind |-> "URLPatternFilter", allowed |-> URL_PATTERNS],
          [kind |-> "DomainFilter", allowed |-> ALLOWED_DOMAINS],
          [kind |-> "ContentTypeFilter", allowed |-> ALLOWED_CONTENT_TYPES]>>]

\* WebCrawler._create_crawler_config: the strategy handed to the engine
CreateCrawlerConfig(md, inc) ==
    [max_depth |-> md,
     include_external |-> inc,
     filter_chain |->
        <<[kind |-> "URLPatternFilter", allowed |-> URL_PATTERNS],
          [kind |-> "DomainFilter", allowed |-> ALLOWED_DOMAINS],
          [kind |-> "ContentTypeFilter", allowed |-> ALLOWED_CONTENT_TYPES]>>]

(***************************************************************************)
(* The crawl engine (crawl4ai: FilterChain, BFSDeepCrawlStrategy), as the  *)
(* specification describes it; its code is not part of the repository      *)
(***************************************************************************)
\* a character piece of a URL contains the literal
PieceContains(piece, literal) ==
    \/ piece = literal
    \/ piece = "gofastmcp" /\ literal = "fastmcp"

\* case-sensitive glob match of "*literal*" against the URL
GlobMatch(pattern, u) ==
    /\ pattern[1] = "*" /\ pattern[3] = "*"
    /\ \E k \in 1..Len(UrlText(u)) : PieceContains(UrlText(u)[k], pattern[2])

\* the labels of the host of the URL
HostOf(u) ==
    LET text == UrlText(u)
        slash == CHOOSE b \in 2..(Len(text) + 1) :
                     /\ b = Len(text) + 1 \/ text[b] = "/"
                     /\ \A c \in 2..(b - 1) : text[c] # "/"
    IN SelectSeq(SubSeq(text, 2, slash - 1), LAMBDA piece : piece # ".")

\* the host is the domain or one of its subdomains
DomainMatch(domain, host) ==
    /\ Len(domain) <= Len(host)
    /\ SubSeq(host, Len(host) - Len(domain) + 1, Len(host)) = domain

\* the MIME type declared for the URL
ContentTypeOf(u) ==
    LET text == UrlText(u)
    IN IF text[Len(text)] = "pdf" /\ text[Len(text) - 1] = "."
       THEN "application/pdf" ELSE "text/html"

FilterPasses(f, u) ==
    CASE f.kind = "URLPatternFilter" ->
            \E k \in 1..Len(f.allowed) : GlobMatch(f.allowed[k], u)
      [] f.kind = "DomainFilter" ->
            \E k \in 1..Len(f.allowed) : DomainMatch(f.allowed[k], HostOf(u))
      [] f.kind = "ContentTypeFilter" ->
            ContentTypeOf(u) \in Range(f.allowed)

\* FilterChain: the filters in order, the first that fails rejects; "" when
\* all pass
RejectedBy(chain, u) ==
    LET failing == SelectIdx(Len(chain), LAMBDA k : ~FilterPasses(chain[k], u))
    IN IF failing = <<>> THEN "" ELSE chain[failing[1]].kind

IsExternal(u) == HostOf(u) # HostOf(target_url)

\* a link found on a page is followed: external links only when included,
\* only past the filter chain, and only when not seen before
Admits(cfg, u, seen) ==
    /\ IsExternal(u) => cfg.include_external
    /\ RejectedBy(cfg.filter_chain, u) = ""
    /\ u \notin seen

\* crawler.arun(url, config): the traversal starts at the root, depth 0
CrawlStart ==
    /\ cpc = "idle"
    /\ queue' = <<[url |-> target_url, depth |-> 0]>>
    /\ visited' = {target_url}
    /\ cpc' = "running"
    /\ UNCHANGED <<runVars, fsVars, writerVars, max_depth, include_external,
                   results, expanding, links>>

\* the page at the head of the frontier is fetched and returned; below the
\* depth bound its links are taken next
Visit ==
    /\ cpc = "running"
    /\ expanding = <<>>
    /\ queue # <<>>
    /\ LET cfg == CreateCrawlerConfig(max_depth, include_external)
           page == Head(queue)
       IN /\ results' = Append(results, page)
          /\ queue' = Tail(queue)
          /\ expanding' = IF page.depth < cfg.max_depth
                          THEN <<[url |-> page.url, depth |-> page.depth, taken |-> 0]>>
                          ELSE <<>>
    /\ UNCHANGED <<runVars, fsVars, writerVars, max_depth, include_external,
                   visited, links, cpc>>

\* one more link of the page being expanded: enqueued when admitted
Discover ==
    /\ cpc = "running"
    /\ expanding # <<>>
    /\ expanding[1].taken < MaxLinks
    /\ \E u \in AllURLs :
          LET cfg == CreateCrawlerConfig(max_depth, include_external)
              page == expanding[1]
          IN /\ links' = <<u>>
             /\ IF Admits(cfg, u, visited)
                THEN /\ queue' = Append(queue, [url |-> u, depth |-> page.depth + 1])
                     /\ visited' = visited \cup {u}
                ELSE UNCHANGED <<queue, visited>>
             /\ expanding' = <<[page EXCEPT !.taken = page.taken + 1]>>
    /\ UNCHANGED <<runVars, fsVars, writerVars, max_depth, include_external, results, cpc>>

\* the page being expanded has no more links
EndPage ==
    /\ cpc = "running"
    /\ expanding # <<>>
    /\ expanding' = <<>>
    /\ UNCHANGED <<runVars, fsVars, writerVars, max_depth, include_external,
                   queue, visited, results, links, cpc>>

\* the frontier is empty: the result list is returned
CrawlDone ==
    /\ cpc = "running"
    /\ expanding = <<>>
    /\ queue = <<>>
    /\ cpc' = "returned"
    /\ UNCHANGED <<runVars, fsVars, writerVars, max_depth, include_external,
                   queue, visited, results, expanding, links>>

\* the engine raises: WebCrawler.crawl raises in turn, nothing is returned
CrawlEngineRaise ==
    /\ cpc = "running"
    /\ cpc' = "raised"
    /\ results' = <<>>
    /\ queue' = <<>>
    /\ expanding' = <<>>
    /\ UNCHANGED <<runVars, fsVars, writerVars, max_depth, include_external, visited, links>>

\* the state after WebCrawler(max_depth, include_external) returned
CrawlInit ==
    /\ pc = "crawl"
    /\ status = "running"
    /\ config \in {c \in Configs : CreateAgent(c) = "ok" /\ "headers" \notin c.fields}
    /\ crawl_results = <<>>
    /\ i = 1
    /\ output = <<>>
    /\ outcome = <<>>
    /\ output_path = <<>>
    /\ log = <<>>
    /\ dirExists = FALSE
    /\ fs = NoFiles
    /\ fs0 = [dir |-> dirExists, files |-> fs]
    /\ now = 0
    /\ lastCall = NoCall
    /\ nCalls = 0
    /\ max_depth \in 0..MaxDepthBound
    /\ include_external \in BOOLEAN
    /\ queue = <<>>
    /\ visited = {}
    /\ results = <<>>
    /\ expanding = <<>>
    /\ links = <<>>
    /\ cpc = "idle"

CrawlNext ==
    \/ CrawlStart
    \/ Visit
    \/ Discover
    \/ EndPage
    \/ CrawlDone
    \/ CrawlEngineRaise

CrawlSpec == CrawlInit /\ [][CrawlNext]_vars

\* the engine keeps running its loop until it returns or raises
FairCrawlSpec == CrawlSpec /\ WF_vars(CrawlNext)

(***************************************************************************)
(* C8: a link gets into the frontier only if it passes the URL pattern     *)
(* check, the domain check and the content type check; the filter that     *)
(* rejects it is the first of the three, in that order, that it fails;     *)
(* this holds with include_external set and unset.                         *)
(***************************************************************************)
MatchesPattern == {target_url, UrlButton, UrlProps, UrlPdf, UrlReactDev, UrlPydantic}
InAllowedDomain == {target_url, UrlButton, UrlProps, UrlPdf, UrlDesign, UrlPydantic}
HasAllowedType == {target_url, UrlButton, UrlProps, UrlDesign, UrlReactDev, UrlPydantic}

FirstFailedCheck(u) ==
    IF u \notin MatchesPattern THEN "URLPatternFilter"
    ELSE IF u \notin InAllowedDomain THEN "DomainFilter"
    ELSE IF u \notin HasAllowedType THEN "ContentTypeFilter"
    ELSE ""

Frontier == {queue[k].url : k \in 1..Len(queue)}

ConjunctiveFiltering ==
    /\ \A u \in visited \ {target_url} :
          u \in MatchesPattern \cap InAllowedDomain \cap HasAllowedType
    /\ \A k \in 1..Len(links) :
          /\ RejectedBy(CreateCrawlerConfig(max_depth, include_external).filter_chain,
                        links[k]) = FirstFailedCheck(links[k])
          /\ FirstFailedCheck(links[k]) # "" => links[k] \notin Frontier

ConjunctiveFilteringWitness ==
    /\ include_external
    /\ links = <<UrlReactDev>>
    /\ UrlPydantic \in Frontier
    /\ UrlReactDev \notin visited

(***************************************************************************)
(* C9: with max_depth = d the traversal enqueues links only of pages at a  *)
(* depth below d, holds no URL twice in what it has returned and what it   *)
(* has still to visit, returns no page deeper than d, and comes to an end. *)
(***************************************************************************)
Reached == results \o queue

DepthBoundState ==
    /\ \A k \in 1..Len(Reached) : Reached[k].depth <= max_depth
    /\ \A a, b \in 1..Len(Reached) : a # b => Reached[a].url # Reached[b].url
    /\ \A a, b \in 1..Len(Reached) : a < b => Reached[a].depth <= Reached[b].depth

DepthBoundStep ==
    /\ visited \subseteq visited'
    /\ \A k \in 1..Len(queue') :
          (cpc = "running" /\ queue'[k].url \notin visited) =>
              /\ results # <<>>
              /\ results[Len(results)].depth < max_depth
              /\ queue'[k].depth = results[Len(results)].depth + 1
    /\ \A k \in 1..Len(queue') :
          queue'[k].url \in visited => \E j \in 1..Len(queue) : queue[j] = queue'[k]

DepthBound ==
    /\ []DepthBoundState
    /\ [][DepthBoundStep]_vars
    /\ <>(cpc \in {"returned", "raised"})

DepthBoundWitness ==
    /\ cpc = "returned"
    /\ max_depth = 2
    /\ Len(results) >= 3
    /\ results[Len(results)].depth = 2
    /\ links # <<>>
    /\ links[1] \in visited

(***************************************************************************)
(* What the output file should hold while the run goes on                  *)
(***************************************************************************)
\* initialize_streaming_markdown has returned to main()
Initialized == output_path # <<>>

\* the output file starts with the header of this run
StartsWithHeader ==
    /\ output_path \in DOMAIN fs
    /\ Len(OutputFile) >= HeaderLen
    /\ IsHeader(SubSeq(OutputFile, 1, HeaderLen))

\* what follows the header in the output file
AfterHeader == SubSeq(OutputFile, HeaderLen + 1, Len(OutputFile))

\* the complete sections of the pages before page i whose extraction succeeded
SectionsSoFar ==
    Blocks(Succeeded(i - 1), LAMBDA k : <<"Page ", Str(k), ": ", crawl_results[k]>>)

\* from one state to the next the output file only grows at its end
OnlyExtends ==
    Initialized => /\ output_path' = output_path
                   /\ IsPrefix(OutputFile, OutputFile')

(***************************************************************************)
(* C11 as stated: at every point after initialization the output file is   *)
(* the header followed by the complete sections of exactly the pages       *)
(* processed so far whose extraction succeeded, and every step only        *)
(* extends the content.                                                    *)
(***************************************************************************)
ExactArtifactState ==
    Initialized => /\ StartsWithHeader
                   /\ AfterHeader = SectionsSoFar

MonotonicArtifactExact == []ExactArtifactState /\ [][OnlyExtends]_vars

(***************************************************************************)
(* C11 amended: at every point after initialization the output file starts *)
(* with the header followed by the complete sections of exactly the pages  *)
(* processed so far whose extraction succeeded; nothing follows them,      *)
(* except after an append that failed, which may leave an incomplete part  *)
(* of its own section at the end of the file of the then failed run; every *)
(* step only extends the content.                                          *)
(***************************************************************************)
ArtifactState ==
    Initialized =>
        /\ StartsWithHeader
        /\ IsPrefix(SectionsSoFar, AfterHeader)
        /\ AfterHeader # SectionsSoFar =>
              /\ ~lastCall.ok
              /\ lastCall.op = "append"
              /\ status = "failed"
              /\ i <= Len(crawl_results)
              /\ outcome[i].state = "ok"
              /\ LET failed == Block(<<"Page ", Str(i), ": ", crawl_results[i]>>,
                                     outcome[i].text)
                 IN \E k \in 1..(Len(failed) - 1) :
                        AfterHeader = SectionsSoFar \o SubSeq(failed, 1, k)

MonotonicArtifact == []ArtifactState /\ [][OnlyExtends]_vars

MonotonicArtifactWitness ==
    /\ pc = "append"
    /\ i = 3
    /\ outcome[1].state = "ok"
    /\ outcome[2].state = "raised"
    /\ outcome[3].state = "ok"
    /\ StartsWithHeader
    /\ Len(AfterHeader) > 0
    /\ AfterHeader = SectionsSoFar

(***************************************************************************)
(* The order of the calls of a run, read from what it printed              *)
(***************************************************************************)
\* positions in the log of the lines printed when agent.run is called
Started == LinesStarting("Extracting information from ")

\* extraction calls that have returned or raised
Ended == Len(LinesStarting("Extracted information from "))
         + Len(LinesStarting("Error extracting information from "))

\* page k has had its section appended, or has been skipped
Settled(k) ==
    \/ outcome[k].state = "raised"
    \/ /\ outcome[k].state = "ok"
       /\ k < i
       /\ \E a \in 1..Len(OutputFile) :
             /\ SubSeq(OutputFile, a, a + 3) = <<"Page ", Str(k), ": ", crawl_results[k]>>
             /\ a + 7 <= Len(OutputFile) + 1

(***************************************************************************)
(* C12: the crawl has returned its whole result list before the output     *)
(* file is initialized; the file is initialized before the first           *)
(* extraction call; the pages are extracted in crawl order, each once, at  *)
(* most one call in flight; the call for page k+1 is made only after page  *)
(* k had its section appended or was skipped.                              *)
(***************************************************************************)
StrictSequencing ==
    /\ cpc # "returned" => /\ nCalls = 0
                           /\ ~Initialized
                           /\ fs = fs0.files
                           /\ crawl_results = <<>>
    /\ ~Initialized => Started = <<>> /\ pc # "extracting"
    /\ Initialized =>
          /\ LinesStarting("Successfully crawled ") = <<2>>
          /\ LinesStarting("Streaming results to: ") = <<3>>
          /\ \A j \in 1..Len(Started) : Started[j] > 3
    /\ Len(Started) <= Len(crawl_results)
    /\ \A j \in 1..Len(Started) : log[Started[j]][2] = crawl_results[j]
    /\ Len(Started) - Ended \in {0, 1}
    /\ Len(Started) - Ended = 1 <=> pc = "extracting"
    /\ pc \in {"extracting", "append"} => Len(Started) = i
    /\ \A j \in 1..Len(Started) : \A k \in 1..(j - 1) : Settled(k)
    /\ \A j \in 2..Len(Started) :
          log[Started[j] - 1] \in
              {<<"Appended results for ", crawl_results[j - 1], " to markdown file">>,
               <<"Error extracting information from ", crawl_results[j - 1]>>}

StrictSequencingWitness ==
    /\ pc = "extracting"
    /\ i = 3
    /\ outcome[1].state = "raised"
    /\ outcome[2].state = "ok"
    /\ Len(Started) = 3

====
